---- MODULE Spec2Model ----
(***************************************************************************)
(* Model of app.py: the OverbookingAnalyzer and ROIAnalyzer calculators    *)
(* and the Monte Carlo run of the dashboard, which draws from the          *)
(* process-wide numpy generator.                                           *)
(*                                                                         *)
(* Floating-point values are modelled as exact rationals in lowest terms,  *)
(* [kind |-> "num", n |-> numerator, d |-> denominator > 0], plus the IEEE *)
(* values "nan", "inf", "-inf" that numpy/scipy return, and "err" for a     *)
(* raised ZeroDivisionError.                                               *)
(***************************************************************************)
EXTENDS Integers, Sequences, FiniteSets, TLC

VARIABLES analyzer,      \* the OverbookingAnalyzer instance
          ovCall,        \* its last call: operation, arguments, return value
          roi_analyzer,  \* the ROIAnalyzer instance
          roiCall,       \* the last calcular_roi call
          rng,           \* state of the process-wide numpy generator
          pc,            \* per session: position in the run-simulation handler
          args,          \* per session: arguments of the running simulation
          out            \* per session: what its last simulation returned

ovVars  == <<analyzer, ovCall>>
simVars == <<rng, pc, args, out>>
vars    == <<analyzer, ovCall, roi_analyzer, roiCall, rng, pc, args, out>>

(***************************************************************************)
(* Bounds of the model.                                                    *)
(***************************************************************************)
MaxCap == 3
MaxExtra == 3
MaxSamples == 2
MaxSeed == 2
RngMod == 4

(***************************************************************************)
(* Rational arithmetic standing for Python / numpy floats.                 *)
(***************************************************************************)
Abs(x) == IF x < 0 THEN -x ELSE x

RECURSIVE GCD(_, _)
GCD(a, b) == IF b = 0 THEN a ELSE GCD(b, a % b)

Frac(n, d) ==
    LET g == GCD(Abs(n), Abs(d))
        s == IF d < 0 THEN -1 ELSE 1
    IN  [kind |-> "num", n |-> (s * n) \div g, d |-> (s * d) \div g]

Int2Num(i) == [kind |-> "num", n |-> i, d |-> 1]
Zero == Int2Num(0)
One  == Int2Num(1)
NaN    == [kind |-> "nan",  n |-> 0, d |-> 1]
PosInf == [kind |-> "inf",  n |-> 0, d |-> 1]
NegInf == [kind |-> "-inf", n |-> 0, d |-> 1]
ZeroDivisionError == [kind |-> "err", n |-> 0, d |-> 1]

IsNum(x) == x.kind = "num"

\* IEEE addition, subtraction and multiplication on the values the model
\* meets: a NaN operand gives NaN; an infinity keeps its sign under the
\* finite shifts and positive scalings the code applies to it.
Add(a, b) ==
    IF a.kind = "nan" \/ b.kind = "nan" THEN NaN
    ELSE IF ~IsNum(a) THEN a
    ELSE IF ~IsNum(b) THEN b
    ELSE LET l == (a.d \div GCD(a.d, b.d)) * b.d
         IN  Frac(a.n * (l \div a.d) + b.n * (l \div b.d), l)

Neg(a) ==
    CASE a.kind = "num"  -> [a EXCEPT !.n = -a.n]
      [] a.kind = "inf"  -> NegInf
      [] a.kind = "-inf" -> PosInf
      [] OTHER           -> a

Sub(a, b) == Add(a, Neg(b))

Mul(a, b) ==
    IF a.kind = "nan" \/ b.kind = "nan" THEN NaN
    ELSE IF IsNum(a) /\ IsNum(b) THEN Frac(a.n * b.n, a.d * b.d)
    ELSE LET sa == IF IsNum(a) THEN a.n ELSE IF a.kind = "inf" THEN 1 ELSE -1
             sb == IF IsNum(b) THEN b.n ELSE IF b.kind = "inf" THEN 1 ELSE -1
         IN  IF sa = 0 \/ sb = 0 THEN NaN
             ELSE IF (sa > 0) = (sb > 0) THEN PosInf ELSE NegInf

\* Comparisons of floats: every comparison with NaN is False.
Gt(a, b) == IsNum(a) /\ IsNum(b) /\ a.n * b.d > b.n * a.d
Le(a, b) == IsNum(a) /\ IsNum(b) /\ a.n * b.d <= b.n * a.d

\* Python's "/" on Python numbers raises ZeroDivisionError on a zero divisor.
PyDiv(a, b) ==
    IF ~IsNum(a) \/ ~IsNum(b) THEN NaN
    ELSE IF b.n = 0 THEN ZeroDivisionError
    ELSE Frac(a.n * b.d, a.d * b.n)

\* numpy's "/" with a float64 dividend returns inf, -inf or nan on a zero
\* divisor (with a RuntimeWarning) instead of raising.
NpDiv(a, b) ==
    IF ~IsNum(a) \/ ~IsNum(b) THEN NaN
    ELSE IF b.n = 0
         THEN (IF a.n > 0 THEN PosInf ELSE IF a.n < 0 THEN NegInf ELSE NaN)
    ELSE Frac(a.n * b.d, a.d * b.n)

\* a^e by repeated squaring.
RECURSIVE Pow(_, _)
Pow(a, e) ==
    IF e = 0 THEN 1
    ELSE LET h == Pow(a, e \div 2)
         IN  IF e % 2 = 0 THEN h * h ELSE a * h * h

RECURSIVE Choose(_, _)
Choose(n, k) == IF k = 0 THEN 1 ELSE (Choose(n - 1, k - 1) * n) \div k

(***************************************************************************)
(* scipy.stats.binom for a success probability p = p.n / p.d.              *)
(***************************************************************************)
BinomArgsOk(n, p) == n >= 0 /\ IsNum(p) /\ 0 <= p.n /\ p.n <= p.d

\* Numerator of pmf(k; n, p) over the denominator p.d^n.
PmfNumer(k, n, p) == Choose(n, k) * Pow(p.n, k) * Pow(p.d - p.n, n - k)

binom_pmf(k, n, p) ==
    IF ~BinomArgsOk(n, p) THEN NaN
    ELSE IF k < 0 \/ k > n THEN Zero
    ELSE Frac(PmfNumer(k, n, p), Pow(p.d, n))

RECURSIVE CdfNumer(_, _, _)
CdfNumer(k, n, p) ==
    IF k < 0 THEN 0 ELSE PmfNumer(k, n, p) + CdfNumer(k - 1, n, p)

binom_cdf(k, n, p) ==
    IF ~BinomArgsOk(n, p) THEN NaN
    ELSE IF k < 0 THEN Zero
    ELSE IF k >= n THEN One
    ELSE Frac(CdfNumer(k, n, p), Pow(p.d, n))

(***************************************************************************)
(* OverbookingAnalyzer                                                     *)
(***************************************************************************)
NoAnalyzer == [made |-> FALSE, capacidade |-> 0, taxa_no_show |-> Zero,
               prob_comparecimento |-> Zero]

OverbookingAnalyzer(capacidade, taxa_no_show) ==
    [made |-> TRUE, capacidade |-> capacidade, taxa_no_show |-> taxa_no_show,
     prob_comparecimento |-> Sub(One, taxa_no_show)]

\* Variant without the complement: the cdf itself.
calcular_prob_overbooking_cdf(self, passagens_vendidas) ==
    binom_cdf(self.capacidade, passagens_vendidas, self.prob_comparecimento)

calcular_prob_overbooking(self, passagens_vendidas) ==
    Sub(One, binom_cdf(self.capacidade, passagens_vendidas,
                       self.prob_comparecimento))

ScanWidth == 50

\* The candidates of the loop, range(capacidade, capacidade + 50).
Candidatos(self) == self.capacidade..(self.capacidade + ScanWidth - 1)

\* The test of the loop body for candidate n.
Excede(self, limite_risco, n) ==
    Gt(calcular_prob_overbooking(self, n), limite_risco)

\* The candidate at which the loop returns: the first, in increasing order,
\* that exceeds the limit.
PrimeiroExcedente(self, limite_risco) ==
    CHOOSE n \in Candidatos(self) :
        /\ Excede(self, limite_risco, n)
        /\ \A m \in self.capacidade..(n - 1) : ~Excede(self, limite_risco, m)

\* Variant returning n instead of n - 1.
encontrar_max_passagens_off_by_one(self, limite_risco) ==
    IF \E n \in Candidatos(self) : Excede(self, limite_risco, n)
    THEN PrimeiroExcedente(self, limite_risco)
    ELSE self.capacidade

encontrar_max_passagens(self, limite_risco) ==
    IF \E n \in Candidatos(self) : Excede(self, limite_risco, n)
    THEN PrimeiroExcedente(self, limite_risco) - 1
    ELSE self.capacidade

\* valor_esperado_excesso after the loop over k in capacidade+1 .. passagens_total.
RECURSIVE ExcessoAte(_, _, _)
ExcessoAte(self, passagens_total, k) ==
    IF k <= self.capacidade THEN Zero
    ELSE Add(ExcessoAte(self, passagens_total, k - 1),
             Mul(binom_pmf(k, passagens_total, self.prob_comparecimento),
                 Int2Num(k - self.capacidade)))

valor_esperado_excesso(self, passagens_extra) ==
    ExcessoAte(self, self.capacidade + passagens_extra,
               self.capacidade + passagens_extra)

\* Variant adding the expected cost to the revenue.
analise_financeira_sign_slip(self, passagens_extra, preco_passagem, custo_indenizacao) ==
    LET receita_adicional == Int2Num(passagens_extra * preco_passagem)
        custo_esperado == Mul(valor_esperado_excesso(self, passagens_extra),
                              Int2Num(custo_indenizacao))
    IN  [receita_adicional |-> receita_adicional,
         custo_esperado    |-> custo_esperado,
         lucro_esperado    |-> Add(receita_adicional, custo_esperado),
         prob_overbooking  |-> calcular_prob_overbooking(
                                   self, self.capacidade + passagens_extra)]

analise_financeira(self, passagens_extra, preco_passagem, custo_indenizacao) ==
    LET receita_adicional == Int2Num(passagens_extra * preco_passagem)
        custo_esperado == Mul(valor_esperado_excesso(self, passagens_extra),
                              Int2Num(custo_indenizacao))
    IN  [receita_adicional |-> receita_adicional,
         custo_esperado    |-> custo_esperado,
         lucro_esperado    |-> Sub(receita_adicional, custo_esperado),
         prob_overbooking  |-> calcular_prob_overbooking(
                                   self, self.capacidade + passagens_extra)]

(***************************************************************************)
(* ROIAnalyzer                                                             *)
(***************************************************************************)
NoROIAnalyzer == [made |-> FALSE, investimento |-> 0, receita_esperada |-> 0,
                  custo_operacional |-> 0]

ROIAnalyzer(investimento, receita_esperada, custo_operacional) ==
    [made |-> TRUE, investimento |-> investimento,
     receita_esperada |-> receita_esperada,
     custo_operacional |-> custo_operacional]

\* An optional argument: None is [given |-> FALSE].
None == [given |-> FALSE, v |-> 0]
Some(v) == [given |-> TRUE, v |-> v]

\* Python truthiness of receita_real: None and 0 are falsy.
Truthy(receita_real) == receita_real.given /\ receita_real.v # 0

\* Variant testing 'receita_real is not None' instead of truthiness.
calcular_roi_none_check(self, receita_real) ==
    LET receita == IF receita_real.given THEN receita_real.v
                   ELSE self.receita_esperada
        lucro == receita - self.custo_operacional
        q == PyDiv(Int2Num(lucro), Int2Num(self.investimento))
    IN  IF q.kind = "err" THEN q ELSE Mul(q, Int2Num(100))

calcular_roi(self, receita_real) ==
    LET receita == IF Truthy(receita_real) THEN receita_real.v
                   ELSE self.receita_esperada
        lucro == receita - self.custo_operacional
        q == PyDiv(Int2Num(lucro), Int2Num(self.investimento))
    IN  IF q.kind = "err" THEN q ELSE Mul(q, Int2Num(100))

(***************************************************************************)
(* The process-wide generator np.random, abstracted to a small linear      *)
(* congruential generator; performances are in hundredths.                 *)
(***************************************************************************)
SeedState(seed) == (seed + 1) % RngMod
NextState(g) == (5 * g + 1) % RngMod
\* The standard-normal deviate produced in generator state g.
Deviate(g) == g - (RngMod \div 2)

RECURSIVE Advance(_, _)
Advance(g, n) == IF n = 0 THEN g ELSE Advance(NextState(g), n - 1)

\* np.random.normal(media, std, n) from generator state g, in hundredths.
Normal(g, media, std, n) ==
    [i \in 1..n |-> media + std * Deviate(Advance(g, i - 1))]

\* Variant without clipping.
NoClip(x) == x

\* np.clip(x, 0, 1) on a value in hundredths.
Clip(x) == IF x < 0 THEN 0 ELSE IF x > 100 THEN 100 ELSE x

\* Lines 66-70 of simulacao_monte_carlo, drawing from generator state g.
SimulateFrom(self, g, n_simulacoes, media_performance, std_performance) ==
    LET raw == Normal(g, media_performance, std_performance, n_simulacoes)
        performances == [i \in 1..n_simulacoes |-> Frac(Clip(raw[i]), 100)]
        receitas == [i \in 1..n_simulacoes |->
                        Mul(performances[i], Int2Num(self.receita_esperada))]
        rois == [i \in 1..n_simulacoes |->
                    Mul(NpDiv(Sub(receitas[i], Int2Num(self.custo_operacional)),
                              Int2Num(self.investimento)),
                        Int2Num(100))]
    IN  [receitas |-> receitas, rois |-> rois, performances |-> performances]

FixedSeed == 42

\* simulacao_monte_carlo run alone: seed 42, then draw.
simulacao_monte_carlo(self, n_simulacoes, media_performance, std_performance) ==
    SimulateFrom(self, SeedState(FixedSeed), n_simulacoes, media_performance,
                 std_performance)

(***************************************************************************)
(* Inputs                                                                  *)
(***************************************************************************)
Capacidades == 1..MaxCap
\* taxa_no_show values; the constructor takes any number, also outside [0,1].
Taxas == {Frac(-1, 2), Zero, Frac(1, 3), Frac(1, 2), Frac(2, 3), One, Frac(3, 2)}
Limites == {Zero, Frac(7, 100), Frac(1, 2)}
Passagens == 0..(MaxCap + MaxExtra)
Extras == 0..MaxExtra
Precos == {1, 500}
Indenizacoes == {2, 1200}

Investimentos == {0, 4, 50000}
Receitas == {3, 80000}
Custos == {1, 10000}
ReceitasReais == {None, Some(0), Some(2), Some(56000)}

Sessions == {"s1", "s2"}
Seeds == 1..MaxSeed
Amostras == 0..MaxSamples
Medias == {50, 100}
Desvios == {30}

(***************************************************************************)
(* State                                                                   *)
(***************************************************************************)
NoFin == [receita_adicional |-> Zero, custo_esperado |-> Zero,
          lucro_esperado |-> Zero, prob_overbooking |-> Zero]
NoCall == [op |-> "none", n |-> 0, limite |-> Zero, preco |-> 0, custo |-> 0,
           ret |-> Zero, fin |-> NoFin]
NoRoiCall == [called |-> FALSE, receita_real |-> None, ret |-> Zero]
NoArgs == [seed |-> 0, n |-> 0, media |-> 0, std |-> 0]
NoRes == [receitas |-> <<>>, rois |-> <<>>, performances |-> <<>>]
NoOut == [done |-> FALSE, seed |-> 0, n |-> 0, media |-> 0, std |-> 0,
          res |-> NoRes]

AllIdle == \A s \in Sessions : pc[s] = "idle"

Init ==
    /\ analyzer = NoAnalyzer
    /\ ovCall = NoCall
    /\ roi_analyzer = NoROIAnalyzer
    /\ roiCall = NoRoiCall
    /\ rng \in 0..(RngMod - 1)
    /\ pc = [s \in Sessions |-> "idle"]
    /\ args = [s \in Sessions |-> NoArgs]
    /\ out = [s \in Sessions |-> NoOut]

(***************************************************************************)
(* Operations of the overbooking calculator                                *)
(***************************************************************************)
NewOverbookingAnalyzer(capacidade, taxa_no_show) ==
    /\ analyzer' = OverbookingAnalyzer(capacidade, taxa_no_show)
    /\ ovCall' = NoCall
    /\ UNCHANGED <<roi_analyzer, roiCall, simVars>>

CallCalcularProbOverbooking(passagens_vendidas) ==
    /\ analyzer.made
    /\ ovCall' = [NoCall EXCEPT !.op = "prob", !.n = passagens_vendidas,
                     !.ret = calcular_prob_overbooking(analyzer, passagens_vendidas)]
    /\ UNCHANGED <<analyzer, roi_analyzer, roiCall, simVars>>

CallEncontrarMaxPassagens(limite_risco) ==
    /\ analyzer.made
    /\ ovCall' = [NoCall EXCEPT !.op = "max", !.limite = limite_risco,
                     !.ret = Int2Num(encontrar_max_passagens(analyzer, limite_risco))]
    /\ UNCHANGED <<analyzer, roi_analyzer, roiCall, simVars>>

CallAnaliseFinanceira(passagens_extra, preco_passagem, custo_indenizacao) ==
    /\ analyzer.made
    /\ ovCall' = [NoCall EXCEPT !.op = "fin", !.n = passagens_extra,
                     !.preco = preco_passagem, !.custo = custo_indenizacao,
                     !.fin = analise_financeira(analyzer, passagens_extra,
                                                preco_passagem, custo_indenizacao)]
    /\ UNCHANGED <<analyzer, roi_analyzer, roiCall, simVars>>

(***************************************************************************)
(* Operations of the ROI calculator                                        *)
(***************************************************************************)
NewROIAnalyzer(investimento, receita_esperada, custo_operacional) ==
    /\ AllIdle
    /\ roi_analyzer' = ROIAnalyzer(investimento, receita_esperada, custo_operacional)
    /\ roiCall' = NoRoiCall
    /\ out' = [s \in Sessions |-> NoOut]
    /\ UNCHANGED <<ovVars, rng, pc, args>>

CallCalcularRoi(receita_real) ==
    /\ roi_analyzer.made
    /\ roiCall' = [called |-> TRUE, receita_real |-> receita_real,
                   ret |-> calcular_roi(roi_analyzer, receita_real)]
    /\ UNCHANGED <<ovVars, roi_analyzer, simVars>>

(***************************************************************************)
(* The run-simulation handler of a session, one step per call on the       *)
(* process-wide generator.                                                 *)
(***************************************************************************)
\* The button handler: np.random.seed(seed), then the call of
\* simulacao_monte_carlo with the widgets' values.
ButtonClick(s, seed, n_simulacoes, media_performance, std_performance) ==
    /\ roi_analyzer.made
    /\ pc[s] = "idle"
    /\ rng' = SeedState(seed)
    /\ args' = [args EXCEPT ![s] = [seed |-> seed, n |-> n_simulacoes,
                                    media |-> media_performance,
                                    std |-> std_performance]]
    /\ out' = [out EXCEPT ![s] = NoOut]
    /\ pc' = [pc EXCEPT ![s] = "called"]
    /\ UNCHANGED <<ovVars, roi_analyzer, roiCall>>

\* A reseed from operating-system entropy, np.random.seed().
Reseed42_entropy(s) ==
    /\ pc[s] = "called"
    /\ rng' \in 0..(RngMod - 1)
    /\ pc' = [pc EXCEPT ![s] = "seeded"]
    /\ UNCHANGED <<ovVars, roi_analyzer, roiCall, args, out>>

\* No reseed at all.
Reseed42_missing(s) ==
    /\ pc[s] = "called"
    /\ pc' = [pc EXCEPT ![s] = "seeded"]
    /\ UNCHANGED <<ovVars, roi_analyzer, roiCall, rng, args, out>>

\* np.random.seed(42) at the start of simulacao_monte_carlo.
Reseed42(s) ==
    /\ pc[s] = "called"
    /\ rng' = SeedState(FixedSeed)
    /\ pc' = [pc EXCEPT ![s] = "seeded"]
    /\ UNCHANGED <<ovVars, roi_analyzer, roiCall, args, out>>

\* np.random.normal draws n samples and advances the generator; the rest of
\* simulacao_monte_carlo is local, and the result is returned.
DrawAndReturn(s) ==
    /\ pc[s] = "seeded"
    /\ out' = [out EXCEPT ![s] =
                  [done |-> TRUE, seed |-> args[s].seed, n |-> args[s].n,
                   media |-> args[s].media, std |-> args[s].std,
                   res |-> SimulateFrom(roi_analyzer, rng, args[s].n,
                                        args[s].media, args[s].std)]]
    /\ rng' = Advance(rng, args[s].n)
    /\ args' = [args EXCEPT ![s] = NoArgs]
    /\ pc' = [pc EXCEPT ![s] = "idle"]
    /\ UNCHANGED <<ovVars, roi_analyzer, roiCall>>

\* Other uses of the process-wide generator between two runs.
OtherDraw ==
    /\ AllIdle
    /\ rng' = NextState(rng)
    /\ UNCHANGED <<ovVars, roi_analyzer, roiCall, pc, args, out>>

OtherSeed(seed) ==
    /\ AllIdle
    /\ rng' = SeedState(seed)
    /\ UNCHANGED <<ovVars, roi_analyzer, roiCall, pc, args, out>>

Step(s) ==
    \/ \E seed \in Seeds, n \in Amostras, m \in Medias, d \in Desvios :
          ButtonClick(s, seed, n, m, d)
    \/ Reseed42(s)
    \/ DrawAndReturn(s)

NewROI ==
    \E i \in Investimentos, r \in Receitas, c \in Custos : NewROIAnalyzer(i, r, c)

(***************************************************************************)
(* Specifications                                                          *)
(***************************************************************************)
\* The sessions of the dashboard run in threads of one process: their steps
\* on the process-wide generator interleave.
Next ==
    \/ NewROI
    \/ \E s \in Sessions : Step(s)

Spec == Init /\ [][Next]_vars

\* Sequential histories: one run at a time, other uses of the generator
\* between the runs.
SeqNext ==
    \/ NewROI
    \/ OtherDraw
    \/ \E seed \in Seeds : OtherSeed(seed)
    \/ \E s \in Sessions : (\A t \in Sessions \ {s} : pc[t] = "idle") /\ Step(s)

SeqSpec == Init /\ [][SeqNext]_vars

\* The overbooking calculator, called on instances built from any inputs.
OverbookingNext ==
    \/ \E c \in Capacidades, t \in Taxas : NewOverbookingAnalyzer(c, t)
    \/ \E n \in Passagens : CallCalcularProbOverbooking(n)
    \/ \E l \in Limites : CallEncontrarMaxPassagens(l)
    \/ \E e \in Extras, p \in Precos, c \in Indenizacoes :
          CallAnaliseFinanceira(e, p, c)

OverbookingSpec == Init /\ [][OverbookingNext]_vars

\* The ROI formula, called on instances built from any inputs.
ROINext ==
    \/ NewROI
    \/ \E r \in ReceitasReais : CallCalcularRoi(r)

ROISpec == Init /\ [][ROINext]_vars

(***************************************************************************)
(* Claims                                                                  *)
(***************************************************************************)
ValidTaxa(self) == Le(Zero, self.taxa_no_show) /\ Le(self.taxa_no_show, One)
LimiteOk(l) == Le(Zero, l) /\ Gt(One, l)
MaxCallOnValidModel ==
    analyzer.made /\ ValidTaxa(analyzer) /\ ovCall.op = "max" /\ LimiteOk(ovCall.limite)

\* C1 (as stated): for capacity > 0, noShowRate in [0,1] and riskLimit in
\* [0,1), encontrar_max_passagens returns r with capacity <= r <= capacity+49,
\* overbookingProbability(r) <= riskLimit and overbookingProbability(r+1) >
\* riskLimit.
C1_LargestAcceptable ==
    MaxCallOnValidModel =>
        LET r == ovCall.ret.n
            c == analyzer.capacidade
        IN  /\ c <= r /\ r <= c + (ScanWidth - 1)
            /\ Le(calcular_prob_overbooking(analyzer, r), ovCall.limite)
            /\ Gt(calcular_prob_overbooking(analyzer, r + 1), ovCall.limite)

\* C1 (amended): the returned r has capacity <= r <= capacity+49 and
\* overbookingProbability(r) <= riskLimit, and either
\* overbookingProbability(r+1) > riskLimit, or no n in capacity..capacity+49
\* has overbookingProbability(n) > riskLimit and r is capacity.
C1_LargestAcceptableOrFallback ==
    MaxCallOnValidModel =>
        LET r == ovCall.ret.n
            c == analyzer.capacidade
        IN  /\ c <= r /\ r <= c + (ScanWidth - 1)
            /\ Le(calcular_prob_overbooking(analyzer, r), ovCall.limite)
            /\ \/ Gt(calcular_prob_overbooking(analyzer, r + 1), ovCall.limite)
               \/ /\ r = c
                  /\ \A n \in c..(c + (ScanWidth - 1)) :
                        ~Gt(calcular_prob_overbooking(analyzer, n), ovCall.limite)

\* A call on a valid model that returned more than the capacity.
C1_Witness == MaxCallOnValidModel /\ ovCall.ret.n >= analyzer.capacidade + 2

\* C4: every constructed OverbookingAnalyzer has 0 <= noShowRate <= 1 (a rate
\* outside [0,1] is rejected at construction).
C4_TaxaInUnitInterval == analyzer.made => ValidTaxa(analyzer)

\* C7: for a model with showProbability in [0,1] and every ticketsSold n >= 0,
\* overbookingProbability(n) <= overbookingProbability(n+1).
C7_Monotone ==
    (analyzer.made /\ ValidTaxa(analyzer) /\ ovCall.op = "prob") =>
        Le(ovCall.ret, calcular_prob_overbooking(analyzer, ovCall.n + 1))

\* A call whose probability is strictly between 0 and 1 and strictly below
\* that of one more ticket.
C7_Witness ==
    /\ analyzer.made /\ ValidTaxa(analyzer) /\ ovCall.op = "prob"
    /\ Gt(ovCall.ret, Zero)
    /\ Gt(calcular_prob_overbooking(analyzer, ovCall.n + 1), ovCall.ret)

\* C9: analise_financeira with extraTickets = 0 has expectedExcess = 0 and
\* returns additionalRevenue = 0, expectedCost = 0, expectedProfit = 0; on
\* every model with noShowRate in [0,1], expectedProfit + expectedCost =
\* additionalRevenue.
C9_FinancialAnalysis ==
    (analyzer.made /\ ovCall.op = "fin") =>
        /\ ovCall.n = 0 =>
              /\ valor_esperado_excesso(analyzer, 0) = Zero
              /\ ovCall.fin.receita_adicional = Zero
              /\ ovCall.fin.custo_esperado = Zero
              /\ ovCall.fin.lucro_esperado = Zero
        /\ ValidTaxa(analyzer) =>
              /\ ovCall.fin.receita_adicional = Int2Num(ovCall.n * ovCall.preco)
              /\ IsNum(ovCall.fin.custo_esperado)
              /\ Add(ovCall.fin.lucro_esperado, ovCall.fin.custo_esperado)
                    = ovCall.fin.receita_adicional

\* A call with no extra tickets.
C9_Witness == analyzer.made /\ ovCall.op = "fin" /\ ovCall.n = 0

\* C6: calcular_roi uses receita_esperada when receita_real is absent or 0
\* and receita_real otherwise, and returns (revenue - custo_operacional) /
\* investimento * 100; with no argument on (50000, 80000, 10000) that is 140,
\* and calcular_roi(0) equals calcular_roi().
C6_RevenueSelection ==
    roiCall.called =>
        LET absent == ~roiCall.receita_real.given \/ roiCall.receita_real.v = 0
            revenue == IF absent THEN roi_analyzer.receita_esperada
                       ELSE roiCall.receita_real.v
        IN  /\ roi_analyzer.investimento # 0 =>
                  roiCall.ret = Frac((revenue - roi_analyzer.custo_operacional) * 100,
                                     roi_analyzer.investimento)
            /\ absent => roiCall.ret = calcular_roi(roi_analyzer, None)
            /\ (roi_analyzer = ROIAnalyzer(50000, 80000, 10000)
                    /\ ~roiCall.receita_real.given) => roiCall.ret = Int2Num(140)

\* calcular_roi(0) was called on a model with a non-zero investment.
C6_Witness ==
    /\ roiCall.called /\ roiCall.receita_real = Some(0)
    /\ roi_analyzer.investimento # 0

RunsOf(s) == out[s].done
SameParams(s, t) ==
    out[s].n = out[t].n /\ out[s].media = out[t].media /\ out[s].std = out[t].std

\* C2: under every interleaving of simultaneous invocations, each returns
\* exactly what simulacao_monte_carlo returns when run alone with the same
\* parameters.
C2_IndependentInvocations ==
    \A s \in Sessions :
        RunsOf(s) => out[s].res = simulacao_monte_carlo(roi_analyzer, out[s].n,
                                                       out[s].media, out[s].std)

\* C3: in a sequential history, two runs with the same seed, sampleCount,
\* meanPerformance and stdPerformance on the same model return identical
\* performances, revenues and rois.
C3_SameSeedSameResult ==
    \A s, t \in Sessions :
        (RunsOf(s) /\ RunsOf(t) /\ out[s].seed = out[t].seed /\ SameParams(s, t))
            => out[s].res = out[t].res

\* Two runs with the same seed and parameters that drew samples, the
\* generator having been used since.
C3_Witness ==
    \E s, t \in Sessions :
        /\ s # t /\ RunsOf(s) /\ RunsOf(t) /\ AllIdle
        /\ out[s].seed = out[t].seed /\ SameParams(s, t)
        /\ out[s].n = MaxSamples
        /\ rng # Advance(SeedState(FixedSeed), out[s].n)

\* C10: the seed the caller sets has no effect: runs with any two seeds and
\* equal sampleCount, meanPerformance and stdPerformance return identical
\* performances, revenues and rois.
C10_SeedHasNoEffect ==
    \A s, t \in Sessions :
        (RunsOf(s) /\ RunsOf(t) /\ SameParams(s, t)) => out[s].res = out[t].res

\* Two runs with different seeds and equal parameters that drew samples.
C10_Witness ==
    \E s, t \in Sessions :
        /\ RunsOf(s) /\ RunsOf(t) /\ out[s].seed # out[t].seed
        /\ SameParams(s, t) /\ out[s].n = MaxSamples

\* C5: with investimento = 0, calcular_roi and simulacao_monte_carlo follow
\* one policy: one raises an arithmetic error exactly when the other does.
C5_OnePolicyOnZeroInvestment ==
    \A s \in Sessions :
        (RunsOf(s) /\ out[s].n >= 1 /\ roi_analyzer.investimento = 0) =>
            ((calcular_roi(roi_analyzer, None).kind = "err")
                <=> (\E i \in 1..out[s].n : out[s].res.rois[i].kind = "err"))

\* C8: the three returned sequences have length sampleCount and at every index
\* performances[i] is the raw draw clipped to [0,1], receitas[i] =
\* performances[i] * receita_esperada and rois[i] = (receitas[i] -
\* custo_operacional) / investimento * 100.
C8_ParallelSequences ==
    \A s \in Sessions :
        RunsOf(s) =>
            LET r == out[s].res
                raw == Normal(SeedState(FixedSeed), out[s].media, out[s].std, out[s].n)
            IN  /\ Len(r.performances) = out[s].n
                /\ Len(r.receitas) = out[s].n
                /\ Len(r.rois) = out[s].n
                /\ \A i \in 1..out[s].n :
                      /\ Le(Zero, r.performances[i]) /\ Le(r.performances[i], One)
                      /\ raw[i] < 0 => r.performances[i] = Zero
                      /\ raw[i] > 100 => r.performances[i] = One
                      /\ (0 <= raw[i] /\ raw[i] <= 100) =>
                            r.performances[i] = Frac(raw[i], 100)
                      /\ r.receitas[i] =
                            Frac(r.performances[i].n * roi_analyzer.receita_esperada,
                                 r.performances[i].d)
                      /\ roi_analyzer.investimento # 0 =>
                            r.rois[i] =
                              Frac((r.receitas[i].n
                                      - roi_analyzer.custo_operacional * r.receitas[i].d)
                                     * 100,
                                   r.receitas[i].d * roi_analyzer.investimento)

\* A run of the largest sample count with a draw clipped at 1 and a draw
\* clipped at 0 or kept.
C8_Witness ==
    \E s \in Sessions :
        /\ RunsOf(s) /\ out[s].n = MaxSamples /\ roi_analyzer.investimento # 0
        /\ \E i \in 1..out[s].n :
              /\ out[s].res.performances[i] = One
              /\ Normal(SeedState(FixedSeed), out[s].media, out[s].std, out[s].n)[i] > 100
        /\ \E i \in 1..out[s].n : out[s].res.performances[i] # One

====
